---- MODULE Spec2Model ----
(***************************************************************************)
(* vcleaner: a command-line filter that removes characters outside         *)
(* printable ASCII (plus tab, line feed, carriage return) from a text      *)
(* file, or reports them.  The model covers main, clean_text_file,         *)
(* show_hidden_chars and count_words of vcleaner.py, the text-mode file    *)
(* reads and writes they perform, and the file system they act on.         *)
(*                                                                         *)
(* A character is its code point.  A file's data is a sequence of units:   *)
(* a unit is the code point of one well-formed UTF-8 sequence, or BadByte  *)
(* for a byte that does not decode.                                        *)
(***************************************************************************)
EXTENDS Integers, Sequences, FiniteSets, TLC

\* ------------------------------------------------------------------ bounds
\* longest file (in units) the file system holds at start
MaxLen == 3
\* longest string handed to count_words in SpecWords
MaxWordLen == 4

\* ------------------------------------------------------- text-mode file I/O
\* a byte that is not part of a well-formed UTF-8 sequence
BadByte == -1

\* units a file is made of: an undecodable byte, tab, LF, CR, space, '~',
\* DEL and ZERO WIDTH SPACE
FileUnits == {BadByte, 9, 10, 13, 32, 126, 127, 8203}

\* characters of the strings handed to count_words: tab, LF, CR, space,
\* 'A', NO-BREAK SPACE and ZERO WIDTH SPACE
WordUnits == {9, 10, 13, 32, 65, 160, 8203}

SeqsUpTo(S, n) == UNION {[1..k -> S] : k \in 0..n}

\* errors="ignore": bytes that do not decode are dropped
DecodeIgnore(data) == SelectSeq(data, LAMBDA u : u # BadByte)

\* newline=None on a read: "\r\n" and a lone "\r" both become "\n"
RECURSIVE UniversalNewlines(_)
UniversalNewlines(s) ==
    IF s = <<>> THEN <<>>
    ELSE IF Head(s) = 13
         THEN <<10>> \o UniversalNewlines(
                  IF Len(s) >= 2 /\ s[2] = 10 THEN Tail(Tail(s)) ELSE Tail(s))
         ELSE <<Head(s)>> \o UniversalNewlines(Tail(s))

\* f.read() of a file opened with "r", encoding="utf-8", errors="ignore"
ReadText(data) == UniversalNewlines(DecodeIgnore(data))

\* os.linesep of the platform (POSIX)
linesep == <<10>>

\* f.write(s) of a file opened with "w": each "\n" becomes os.linesep
RECURSIVE WriteText(_)
WriteText(s) ==
    IF s = <<>> THEN <<>>
    ELSE (IF Head(s) = 10 THEN linesep ELSE <<Head(s)>>) \o WriteText(Tail(s))

\* -------------------------------------------------------------- file system
Nodes == {"in.txt", "d", "d/in.txt", "out.txt",
          "cleaned_in.txt", "cleaned_d", "cleaned_d/in.txt"}

\* the directory a path lies in; "" is the working directory
DirName(p) ==
    CASE p = "d/in.txt"         -> "d"
      [] p = "cleaned_d/in.txt" -> "cleaned_d"
      [] OTHER                  -> ""

Absent      == [kind |-> "absent", data |-> <<>>]
Directory   == [kind |-> "dir",    data |-> <<>>]
Denied      == [kind |-> "denied", data |-> <<>>]
File(data)  == [kind |-> "file",   data |-> data]

DirExists(f, d) == d = "" \/ f[d].kind = "dir"

\* the path names something
Resolves(f, p) == DirExists(f, DirName(p)) /\ f[p].kind # "absent"

NoError == [type |-> "None", path |-> ""]
OSError(type, p) == [type |-> type, path |-> p]

\* open(p, "r") followed by read(): the exception raised, or the text
OpenRead(f, p) ==
    IF ~Resolves(f, p)
    THEN [exc |-> OSError("FileNotFoundError", p), text |-> <<>>]
    ELSE IF f[p].kind = "dir"
    THEN [exc |-> OSError("IsADirectoryError", p), text |-> <<>>]
    ELSE IF f[p].kind = "denied"
    THEN [exc |-> OSError("PermissionError", p), text |-> <<>>]
    ELSE [exc |-> NoError, text |-> ReadText(f[p].data)]

\* open(p, "w") followed by write(s): the exception raised, and the file
\* system afterwards (the file is created or truncated only when open succeeds)
OpenWrite(f, p, s) ==
    IF ~DirExists(f, DirName(p))
    THEN [exc |-> OSError("FileNotFoundError", p), fs |-> f]
    ELSE IF f[p].kind = "dir"
    THEN [exc |-> OSError("IsADirectoryError", p), fs |-> f]
    ELSE IF f[p].kind = "denied"
    THEN [exc |-> OSError("PermissionError", p), fs |-> f]
    ELSE [exc |-> NoError, fs |-> [f EXCEPT ![p] = File(WriteText(s))]]

\* --------------------------------------------------------------- count_words
\* str.split() separators: the characters for which str.isspace() holds
IsSpace(c) ==
    \/ c \in 9..13
    \/ c \in 28..32
    \/ c \in {133, 160, 5760}
    \/ c \in 8192..8202
    \/ c \in {8232, 8233, 8239, 8287, 12288}

\* length of the longest prefix of s without a separator
RECURSIVE WordEnd(_)
WordEnd(s) ==
    IF s = <<>> \/ IsSpace(Head(s)) THEN 0 ELSE 1 + WordEnd(Tail(s))

\* a split that cuts at every single separator and keeps the empty tokens
RECURSIVE split_each(_)
split_each(s) ==
    IF s = <<>> THEN <<>>
    ELSE LET n == WordEnd(s) IN
         <<SubSeq(s, 1, n)>> \o
            (IF n = Len(s) THEN <<>> ELSE split_each(SubSeq(s, n + 2, Len(s))))

\* text.split(): skip separators, take a word up to the next separator, repeat
RECURSIVE split(_)
split(s) ==
    IF s = <<>> THEN <<>>
    ELSE IF IsSpace(Head(s)) THEN split(Tail(s))
    ELSE LET n == WordEnd(s) IN
         <<SubSeq(s, 1, n)>> \o split(SubSeq(s, n + 1, Len(s)))

count_words(text) == Len(split(text))

\* ------------------------------------------------------------ classification
\* the test of clean_text_file's loop, with the lower bound excluded
CleanKeepsExclusive(ascii_val) ==
    (32 < ascii_val /\ ascii_val <= 126) \/ ascii_val \in {9, 10, 13}

\* the test of clean_text_file's loop: the character is kept
CleanKeeps(ascii_val) ==
    (32 <= ascii_val /\ ascii_val <= 126) \/ ascii_val \in {9, 10, 13}

\* the test of show_hidden_chars's loop: the character is tallied
ShowTallies(ascii_val) ==
    ~((32 <= ascii_val /\ ascii_val <= 126) \/ ascii_val \in {9, 10, 13})

\* ------------------------------------------------------------------- stdout
Line(tag, arg) == [tag |-> tag, arg |-> arg]

\* --------------------------------------------------------------------- state
VARIABLES
    argv,             \* sys.argv; argv[1] is the script name
    fs,               \* the file system: node -> [kind, data]
    pc,               \* position of the process
    input_file, output_file,
    content, original_length, original_words,
    i,                \* characters of content the running loop has processed
    cleaned, hidden_count,
    cleaned_length, cleaned_words, hidden_removed,
    hidden_chars,     \* dict in insertion order: sequence of [char, count]
    total_hidden,
    out,              \* lines printed so far
    ret,              \* main's return value: <<>> until it returns
    exc               \* the exception that left main uncaught, or NoError

vars == <<argv, fs, pc, input_file, output_file, content, original_length,
          original_words, i, cleaned, hidden_count, cleaned_length,
          cleaned_words, hidden_removed, hidden_chars, total_hidden, out,
          ret, exc>>

\* sys.argv[k]
SysArgv(k) == argv[k + 1]

Inputs == {"in.txt", "d/in.txt"}

Argvs ==
    {<<"vcleaner.py">>}
    \cup {<<"vcleaner.py", c>> : c \in {"clean", "show", "unknown"}}
    \cup {<<"vcleaner.py", c, p>> : c \in {"clean", "show", "unknown"}, p \in Inputs}
    \cup {<<"vcleaner.py", "clean", p, "out.txt">> : p \in Inputs}

\* the file systems the program may start in: both input paths name the same
\* kind of node, the output paths may be missing, present or protected
InitFS ==
    { [n \in Nodes |->
         CASE n \in Inputs      -> inNode
           [] n = "d"           -> Directory
           [] n = "out.txt"     -> outNode
           [] n = "cleaned_d"   -> cdNode
           [] OTHER             -> Absent] :
      inNode \in {Absent, Directory, Denied}
                   \cup {File(d) : d \in SeqsUpTo(FileUnits, MaxLen)},
      outNode \in {Absent, File(<<126>>), Denied},
      cdNode \in {Absent, Directory} }

Locals ==
    /\ input_file = "" /\ output_file = ""
    /\ original_length = 0 /\ original_words = 0
    /\ i = 0 /\ cleaned = <<>> /\ hidden_count = 0
    /\ cleaned_length = 0 /\ cleaned_words = 0 /\ hidden_removed = 0
    /\ hidden_chars = <<>> /\ total_hidden = 0
    /\ out = <<>> /\ ret = <<>> /\ exc = NoError

Init ==
    /\ argv \in Argvs
    /\ fs \in InitFS
    /\ pc = "main"
    /\ content = <<>>
    /\ Locals

\* ---------------------------------------------------------------------- main
Main ==
    /\ pc = "main"
    /\ UNCHANGED <<argv, fs, content, original_length, original_words, i,
                   cleaned, hidden_count, cleaned_length, cleaned_words,
                   hidden_removed, hidden_chars, total_hidden, exc>>
    /\ IF Len(argv) < 2
       THEN /\ out' = Append(out, Line("help", ""))
            /\ ret' = <<1>>
            /\ pc' = "exit"
            /\ UNCHANGED <<input_file, output_file>>
       ELSE IF SysArgv(1) = "clean"
       THEN IF Len(argv) < 3
            THEN /\ out' = Append(out, Line("specify", ""))
                 /\ pc' = "return"
                 /\ UNCHANGED <<input_file, output_file, ret>>
            ELSE /\ input_file' = SysArgv(2)
                 /\ output_file' = IF Len(argv) > 3 THEN SysArgv(3)
                                    ELSE "cleaned_" \o SysArgv(2)
                 /\ pc' = "clean"
                 /\ UNCHANGED <<out, ret>>
       ELSE IF SysArgv(1) = "show"
       THEN IF Len(argv) < 3
            THEN /\ out' = Append(out, Line("specify", ""))
                 /\ pc' = "return"
                 /\ UNCHANGED <<input_file, output_file, ret>>
            ELSE /\ input_file' = SysArgv(2)
                 /\ pc' = "show"
                 /\ UNCHANGED <<output_file, out, ret>>
       ELSE /\ out' = Append(out, Line("unknown", ""))
            /\ ret' = <<1>>
            /\ pc' = "exit"
            /\ UNCHANGED <<input_file, output_file>>

\* the final "return 0" of main, reached when the dispatched call returns
MainReturn ==
    /\ pc = "return"
    /\ ret' = <<0>>
    /\ pc' = "exit"
    /\ UNCHANGED <<argv, fs, input_file, output_file, content, original_length,
                   original_words, i, cleaned, hidden_count, cleaned_length,
                   cleaned_words, hidden_removed, hidden_chars, total_hidden,
                   out, exc>>

\* ----------------------------------------------------------- clean_text_file
\* the handler that prints the output path in the "not found" message
CleanHandlerOutputPath(e, in_path, out_path) ==
    IF e.type = "FileNotFoundError" THEN Line("not_found", out_path)
    ELSE Line("error", e)

\* the except clauses of clean_text_file: the line printed for exception e
CleanHandler(e, in_path, out_path) ==
    IF e.type = "FileNotFoundError" THEN Line("not_found", in_path)
    ELSE Line("error", e)

\* a loop body that counts every character as hidden (no else branch)
CleanLoopBodyNoElse(cl, hc, char) ==
    IF CleanKeeps(char)
    THEN [cleaned |-> Append(cl, char), hidden_count |-> hc + 1]
    ELSE [cleaned |-> cl, hidden_count |-> hc + 1]

\* one iteration of the classification loop of clean_text_file
CleanLoopBody(cl, hc, char) ==
    IF CleanKeeps(char)
    THEN [cleaned |-> Append(cl, char), hidden_count |-> hc]
    ELSE [cleaned |-> cl, hidden_count |-> hc + 1]

\* open and read the input, print the original statistics, start the loop
CleanRead ==
    /\ pc = "clean"
    /\ UNCHANGED <<argv, fs, input_file, output_file, cleaned_length,
                   cleaned_words, hidden_removed, hidden_chars, total_hidden,
                   ret, exc>>
    /\ LET r == OpenRead(fs, input_file) IN
       IF r.exc # NoError
       THEN /\ out' = Append(out, CleanHandler(r.exc, input_file, output_file))
            /\ pc' = "return"
            /\ UNCHANGED <<content, original_length, original_words, i,
                           cleaned, hidden_count>>
       ELSE /\ content' = r.text
            /\ original_length' = Len(r.text)
            /\ original_words' = count_words(r.text)
            /\ out' = out \o <<Line("orig_len", Len(r.text)),
                               Line("num_words", count_words(r.text))>>
            /\ cleaned' = <<>>
            /\ hidden_count' = 0
            /\ i' = 0
            /\ pc' = "clean_loop"

CleanStep ==
    /\ pc = "clean_loop"
    /\ i < Len(content)
    /\ LET b == CleanLoopBody(cleaned, hidden_count, content[i + 1]) IN
       /\ cleaned' = b.cleaned
       /\ hidden_count' = b.hidden_count
    /\ i' = i + 1
    /\ UNCHANGED <<argv, fs, pc, input_file, output_file, content,
                   original_length, original_words, cleaned_length,
                   cleaned_words, hidden_removed, hidden_chars, total_hidden,
                   out, ret, exc>>

\* after the loop: compute the statistics, write the output, print the report
CleanWrite ==
    /\ pc = "clean_loop"
    /\ i = Len(content)
    /\ cleaned_length' = Len(cleaned)
    /\ cleaned_words' = count_words(cleaned)
    /\ hidden_removed' = hidden_count
    /\ LET w == OpenWrite(fs, output_file, cleaned) IN
       /\ fs' = w.fs
       /\ out' = IF w.exc = NoError
                 THEN out \o <<Line("cleaned_len", Len(cleaned)),
                                Line("removed", hidden_count),
                                Line("words_count", count_words(cleaned)),
                                Line("saved", output_file)>>
                 ELSE Append(out, CleanHandler(w.exc, input_file, output_file))
    /\ pc' = "return"
    /\ UNCHANGED <<argv, input_file, output_file, content, original_length,
                   original_words, i, cleaned, hidden_count, hidden_chars,
                   total_hidden, ret, exc>>

\* --------------------------------------------------------- show_hidden_chars
\* char in d
HasKey(d, char) == \E k \in 1..Len(d) : d[k].char = char

\* if char not in d: d[char] = 0; then d[char] += 1 (new keys go last)
DictIncr(d, char) ==
    IF HasKey(d, char)
    THEN [k \in 1..Len(d) |->
            IF d[k].char = char THEN [d[k] EXCEPT !.count = @ + 1] ELSE d[k]]
    ELSE Append(d, [char |-> char, count |-> 1])

\* a loop body that counts only the first occurrence in the total
ShowLoopBodyFirstOnly(d, th, char) ==
    IF ShowTallies(char)
    THEN [hidden_chars |-> DictIncr(d, char),
          total_hidden |-> IF HasKey(d, char) THEN th ELSE th + 1]
    ELSE [hidden_chars |-> d, total_hidden |-> th]

\* one iteration of the scan of show_hidden_chars
ShowLoopBody(d, th, char) ==
    IF ShowTallies(char)
    THEN [hidden_chars |-> DictIncr(d, char), total_hidden |-> th + 1]
    ELSE [hidden_chars |-> d, total_hidden |-> th]

\* insert x into s, sorted by count descending, after the entries with the
\* same count
RECURSIVE InsertDesc(_, _)
InsertDesc(s, x) ==
    IF s = <<>> THEN <<x>>
    ELSE IF Head(s).count >= x.count THEN <<Head(s)>> \o InsertDesc(Tail(s), x)
    ELSE <<x>> \o s

\* the same, before the entries with the same count
RECURSIVE InsertDescBefore(_, _)
InsertDescBefore(s, x) ==
    IF s = <<>> THEN <<x>>
    ELSE IF Head(s).count > x.count
         THEN <<Head(s)>> \o InsertDescBefore(Tail(s), x)
    ELSE <<x>> \o s

\* a descending sort that reverses the entries of equal count
RECURSIVE SortedReversingTies(_)
SortedReversingTies(items) ==
    IF items = <<>> THEN <<>>
    ELSE InsertDescBefore(SortedReversingTies(SubSeq(items, 1, Len(items) - 1)),
                          items[Len(items)])

\* sorted(items, key=lambda x: x[1], reverse=True): descending by count,
\* stable (entries of equal count keep the order of items)
RECURSIVE Sorted(_)
Sorted(items) ==
    IF items = <<>> THEN <<>>
    ELSE InsertDesc(Sorted(SubSeq(items, 1, Len(items) - 1)), items[Len(items)])

\* open and read the input, start the scan; only FileNotFoundError is caught
ShowRead ==
    /\ pc = "show"
    /\ UNCHANGED <<argv, fs, input_file, output_file, cleaned, hidden_count,
                   cleaned_length, cleaned_words, hidden_removed, ret>>
    /\ LET r == OpenRead(fs, input_file) IN
       IF r.exc = NoError
       THEN /\ content' = r.text
            /\ original_length' = Len(r.text)
            /\ original_words' = count_words(r.text)
            /\ hidden_chars' = <<>>
            /\ total_hidden' = 0
            /\ i' = 0
            /\ pc' = "show_loop"
            /\ UNCHANGED <<out, exc>>
       ELSE IF r.exc.type = "FileNotFoundError"
       THEN /\ out' = Append(out, Line("not_found", input_file))
            /\ pc' = "return"
            /\ UNCHANGED <<content, original_length, original_words, i,
                           hidden_chars, total_hidden, exc>>
       ELSE /\ exc' = r.exc
            /\ pc' = "exit"
            /\ UNCHANGED <<content, original_length, original_words, i,
                           hidden_chars, total_hidden, out>>

ShowStep ==
    /\ pc = "show_loop"
    /\ i < Len(content)
    /\ LET b == ShowLoopBody(hidden_chars, total_hidden, content[i + 1]) IN
       /\ hidden_chars' = b.hidden_chars
       /\ total_hidden' = b.total_hidden
    /\ i' = i + 1
    /\ UNCHANGED <<argv, fs, pc, input_file, output_file, content,
                   original_length, original_words, cleaned, hidden_count,
                   cleaned_length, cleaned_words, hidden_removed, out, ret,
                   exc>>

\* the lines "Find (ASCII <code>): <count> characters", in printing order
FindLines(d) ==
    LET s == Sorted(d) IN
    [k \in 1..Len(s) |-> Line("find", <<s[k].char, s[k].count>>)]

\* after the scan: print the report
ShowReport ==
    /\ pc = "show_loop"
    /\ i = Len(content)
    /\ out' = out \o <<Line("blank", "")>>
               \o (IF hidden_chars # <<>>
                   THEN <<Line("found", "")>> \o FindLines(hidden_chars)
                        \o <<Line("total", total_hidden)>>
                   ELSE <<Line("no_hidden", "")>>)
               \o <<Line("show_len", original_length),
                    Line("show_words", original_words)>>
    /\ pc' = "return"
    /\ UNCHANGED <<argv, fs, input_file, output_file, content,
                   original_length, original_words, i, cleaned, hidden_count,
                   cleaned_length, cleaned_words, hidden_removed, hidden_chars,
                   total_hidden, ret, exc>>

\* ------------------------------------------------------------ specifications
Next ==
    \/ Main
    \/ MainReturn
    \/ CleanRead
    \/ CleanStep
    \/ CleanWrite
    \/ ShowRead
    \/ ShowStep
    \/ ShowReport

Spec == Init /\ [][Next]_vars

\* count_words applied to every string over WordUnits up to MaxWordLen
InitWords ==
    /\ argv = <<"vcleaner.py">>
    /\ fs = [n \in Nodes |-> Absent]
    /\ pc = "count_words"
    /\ content \in SeqsUpTo(WordUnits, MaxWordLen)
    /\ Locals

CountWords ==
    /\ pc = "count_words"
    /\ original_words' = count_words(content)
    /\ pc' = "counted"
    /\ UNCHANGED <<argv, fs, input_file, output_file, content, original_length,
                   i, cleaned, hidden_count, cleaned_length, cleaned_words,
                   hidden_removed, hidden_chars, total_hidden, out, ret, exc>>

NextWords == CountWords

SpecWords == InitWords /\ [][NextWords]_vars

\* ------------------------------------------------- vocabulary of the claims
\* Allowed: code point in 32..126, or tab, line feed, carriage return
Allowed(c) == c \in 32..126 \/ c \in {9, 10, 13}

\* the subsequence of the Allowed characters of s, in order
FilteredOutput(s) == SelectSeq(s, Allowed)

\* number of occurrences of c in s
Occurrences(s, c) == Cardinality({k \in 1..Len(s) : s[k] = c})

\* number of Hidden characters of s
HiddenIn(s) == Cardinality({k \in 1..Len(s) : ~Allowed(s[k])})

\* the distinct Hidden characters of s
HiddenSet(s) == {s[k] : k \in {j \in 1..Len(s) : ~Allowed(s[j])}}

\* position of the first occurrence of c in s
FirstIndex(s, c) == CHOOSE k \in 1..Len(s) :
                        s[k] = c /\ \A j \in 1..(k - 1) : s[j] # c

\* whitespace as the word counter's contract lists it
Whitespace(c) == c \in {9, 10, 11, 12, 13, 28, 29, 30, 31, 32, 133, 160}

\* number of maximal runs of non-whitespace characters of s
Runs(s) == Cardinality({k \in 1..Len(s) :
              ~Whitespace(s[k]) /\ (k = 1 \/ Whitespace(s[k - 1]))})

Separators == {32, 9, 10, 13}

\* the subcommand, "" when there is none
Command == IF Len(argv) >= 2 THEN SysArgv(1) ELSE ""

Printed(tag) == \E k \in 1..Len(out) : out[k].tag = tag

\* the argument of the printed line with this tag
Arg(tag) == out[CHOOSE k \in 1..Len(out) : out[k].tag = tag].arg

RECURSIVE SumCounts(_)
SumCounts(d) == IF d = <<>> THEN 0 ELSE Head(d).count + SumCounts(Tail(d))

\* clean_text_file ran past its loop
CleanLoopDone == pc \in {"return", "exit"} /\ Printed("orig_len")

\* show_hidden_chars printed its report
ShowReported == Printed("blank")

\* a file operation was dispatched on a path that names nothing
InputMissing == input_file # "" /\ ~Resolves(fs, input_file)

\* ------------------------------------------------------------------------ C1
\* C1: during the loop of clean_text_file the buffer is the subsequence of
\* the Allowed characters among those processed so far, and the file written
\* holds exactly the Allowed characters of the stream read, in their order.
Thm_C1 ==
    /\ pc = "clean_loop" => cleaned = FilteredOutput(SubSeq(content, 1, i))
    /\ Printed("saved") =>
          /\ fs[output_file].kind = "file"
          /\ fs[output_file].data = FilteredOutput(content)

Wit_C1 ==
    /\ Printed("saved")
    /\ Len(content) = 3
    /\ \E k \in 1..3 : Allowed(content[k])
    /\ \E k \in 1..3 : ~Allowed(content[k])
    /\ fs[output_file].data # content

\* ------------------------------------------------------------------------ C2
\* C2: at every iteration of the loop of clean_text_file the length of the
\* buffer plus the hidden count is the number of characters processed, and
\* after the loop cleaned_length + hidden_removed = original_length, also in
\* the numbers printed.
Thm_C2 ==
    /\ pc = "clean_loop" => Len(cleaned) + hidden_count = i
    /\ CleanLoopDone =>
          /\ cleaned_length = Len(cleaned)
          /\ original_length = Len(content)
          /\ cleaned_length + hidden_removed = original_length
    /\ Printed("removed") =>
          Arg("cleaned_len") + Arg("removed") = Arg("orig_len")

Wit_C2 ==
    /\ Printed("removed")
    /\ Arg("removed") = 2
    /\ Arg("cleaned_len") = 1

\* ------------------------------------------------------------------------ C3
\* C3: cleaning an input file whose content is only Allowed characters writes
\* an output file identical to the input file and reports 0 removed.
Cex_C3 ==
    (/\ Printed("saved")
     /\ \A k \in 1..Len(fs[input_file].data) : Allowed(fs[input_file].data[k]))
    => /\ fs[output_file].data = fs[input_file].data
       /\ Arg("removed") = 0

\* ------------------------------------------------------------------------ C4
\* C4: when the input path does not exist, clean_text_file and
\* show_hidden_chars print the message with that path and return, main
\* returns, and the file system is left as it was; the file system changes
\* only once the input has been read and the loop has run to its end.
Thm_C4 ==
    [][ /\ (pc \in {"clean", "show"} /\ InputMissing) =>
             /\ out' = Append(out, Line("not_found", input_file))
             /\ pc' = "return"
             /\ exc' = NoError
             /\ fs' = fs
        /\ (pc = "return" /\ InputMissing) =>
             /\ pc' = "exit"
             /\ ret' = <<0>>
             /\ exc' = NoError
             /\ out' = out
             /\ fs' = fs
        /\ fs' # fs =>
             /\ pc = "clean_loop"
             /\ i = Len(content)
             /\ content = OpenRead(fs, input_file).text
             /\ \A n \in Nodes \ {output_file} : fs'[n] = fs[n]
      ]_vars

Wit_C4 ==
    /\ pc = "exit"
    /\ Command = "clean"
    /\ InputMissing
    /\ output_file = "out.txt"
    /\ fs["out.txt"] = File(<<126>>)
    /\ out = <<Line("not_found", input_file)>>
    /\ ret = <<0>>

\* ------------------------------------------------------------------------ C5
\* C5: in both operations every failure to open or read the input is turned
\* into a printed message; the operation returns and nothing propagates.
Cex_C5 ==
    (/\ pc = "exit"
     /\ input_file # ""
     /\ OpenRead(fs, input_file).exc # NoError)
    => /\ exc = NoError
       /\ Printed("not_found") \/ Printed("error")

\* ------------------------------------------------------------------------ C6
\* C6: clean_text_file prints the "not found" message only when the input
\* path does not resolve; any other failure is printed with its own message.
Cex_C6 ==
    (Command = "clean" /\ Printed("not_found")) => InputMissing

\* ------------------------------------------------------------------------ C7
\* C7: during and after the scan of show_hidden_chars the tally has one entry
\* per distinct Hidden character seen so far and none for an Allowed one,
\* each count is the number of occurrences so far, and the counts add up to
\* total_hidden; at the end total_hidden is the number of Hidden characters
\* of the stream, which is what clean_text_file reports as removed.
Thm_C7 ==
    /\ (pc = "show_loop" \/ ShowReported) =>
          LET seen == SubSeq(content, 1, i) IN
          /\ \A k \in 1..Len(hidden_chars) :
                /\ ~Allowed(hidden_chars[k].char)
                /\ hidden_chars[k].count = Occurrences(seen, hidden_chars[k].char)
                /\ \A j \in 1..Len(hidden_chars) :
                      hidden_chars[j].char = hidden_chars[k].char => j = k
          /\ {hidden_chars[k].char : k \in 1..Len(hidden_chars)} = HiddenSet(seen)
          /\ SumCounts(hidden_chars) = total_hidden
    /\ ShowReported => total_hidden = HiddenIn(content)
    /\ CleanLoopDone => hidden_removed = HiddenIn(content)

Wit_C7 ==
    /\ ShowReported
    /\ Len(hidden_chars) = 2
    /\ total_hidden = 3

\* ------------------------------------------------------------------------ C8
\* C8: the report of show_hidden_chars is a blank line, then either the
\* header, one line per distinct Hidden character by count descending (equal
\* counts in order of first occurrence) and the total, or the single "no
\* hidden characters" line, then the original length and the word count.
Thm_C8 ==
    ShowReported =>
       LET n == Cardinality(HiddenSet(content)) IN
       /\ out[1].tag = "blank"
       /\ IF n = 0
          THEN /\ Len(out) = 4
               /\ out[2].tag = "no_hidden"
          ELSE /\ Len(out) = n + 5
               /\ out[2].tag = "found"
               /\ \A k \in 3..(n + 2) :
                     /\ out[k].tag = "find"
                     /\ out[k].arg[1] \in HiddenSet(content)
                     /\ out[k].arg[2] = Occurrences(content, out[k].arg[1])
               /\ \A k \in 3..(n + 1) :
                     \/ out[k].arg[2] > out[k + 1].arg[2]
                     \/ /\ out[k].arg[2] = out[k + 1].arg[2]
                        /\ FirstIndex(content, out[k].arg[1])
                              < FirstIndex(content, out[k + 1].arg[1])
               /\ out[n + 3].tag = "total"
               /\ out[n + 3].arg = HiddenIn(content)
       /\ out[Len(out) - 1] = Line("show_len", Len(content))
       /\ out[Len(out)] = Line("show_words", Runs(content))

Wit_C8 ==
    /\ ShowReported
    /\ Len(out) = 7
    /\ out[3].arg[2] = out[4].arg[2]

\* ------------------------------------------------------------------------ C9
\* C9: main returns 1 exactly when there is no argument or the first argument
\* is neither "clean" nor "show", and then touches no file; in every other
\* case it returns 0; "clean" without an output argument writes to "cleaned_"
\* followed by the input argument.
Cex_C9 ==
    pc = "exit" =>
       LET usage == Command \notin {"clean", "show"} IN
       /\ ret = <<1>> <=> usage
       /\ ~usage => ret = <<0>>
       /\ (~usage /\ Len(argv) < 3) => out = <<Line("specify", "")>>
       /\ (Command = "clean" /\ Len(argv) = 3) =>
             output_file = "cleaned_" \o SysArgv(2)

\* ----------------------------------------------------------------------- C10
\* C10: count_words returns the number of maximal runs of non-whitespace
\* characters, 0 when there is none, and a separator added in front, at the
\* end or next to another separator does not change the count.
Thm_C10 ==
    pc = "counted" =>
       /\ original_words = Runs(content)
       /\ (\A k \in 1..Len(content) : Whitespace(content[k])) => original_words = 0
       /\ \A sep \in Separators :
             /\ count_words(<<sep>> \o content) = original_words
             /\ count_words(content \o <<sep>>) = original_words
             /\ \A k \in 1..Len(content) :
                   content[k] \in Separators =>
                      count_words(SubSeq(content, 1, k) \o <<sep>>
                                  \o SubSeq(content, k + 1, Len(content)))
                         = original_words

Wit_C10 ==
    /\ pc = "counted"
    /\ Len(content) = 4
    /\ original_words = 2
    /\ content[2] \in Separators
    /\ content[3] \in Separators

====
